---- MODULE Spec2Model ----
(***************************************************************************)
(* State-machine model of examples/addcomputer.py (class ADDCOMPUTER):     *)
(* the constructor that resolves the command-line options, the SAMR engine *)
(* (run_samr / doSAMRAdd) and the LDAPS engine (run_ldaps /                *)
(* bypass_with_msExchStorageGroup).  One action is one step of the         *)
(* single-threaded program: a protocol call together with the handling of  *)
(* its result (assignments, logging, raise, and the except clause that     *)
(* catches the raise).  The outcome of every protocol call is chosen by    *)
(* the environment.                                                        *)
(*                                                                         *)
(* Strings the code inspects character by character (computer names, the   *)
(* authenticating user name, the server's result message) are sequences of *)
(* one-character strings; all other strings are atomic.                    *)
(***************************************************************************)
EXTENDS Integers, Sequences, FiniteSets, TLC

\* ------------------------------------------------------------------ bounds
\* Longest computer name given on the command line.
MaxNameLen == 2
\* Number of distinct names generateComputerName can draw.
MaxGen == 2
\* Most candidate names the backend reports as taken during one run.
MaxTaken == 1
\* Most directory entries that carry the same sAMAccountName.
MaxEntries == 2

\* ------------------------------------------------------- values and strings
None == "None"

NoName == [isNone |-> TRUE, chars |-> <<>>]
Name(s) == [isNone |-> FALSE, chars |-> s]

NoExc == [type |-> "None", code |-> "None", msg |-> "None"]
Exc(t, c, m) == [type |-> t, code |-> c, msg |-> m]

\* str.endswith(c) for a one-character suffix.
EndsWith(s, c) == Len(s) > 0 /\ s[Len(s)] = c

\* s[:-1]
DropLast(s) == IF Len(s) = 0 THEN s ELSE SubSeq(s, 1, Len(s) - 1)

\* str.lower() on the domain names the model uses.
Lower(s) ==
  CASE s = "CORP" -> "corp"
    [] s = "LAB" -> "lab"
    [] s = "Builtin" -> "builtin"
    [] s = "BUILTIN" -> "builtin"
    [] OTHER -> s

\* filter(pred, list) for a list of domain names, keeping the order.
RECURSIVE FilterSeq(_, _)
FilterSeq(s, keep) ==
  IF s = <<>> THEN <<>>
  ELSE (IF Head(s) \in keep THEN <<Head(s)>> ELSE <<>>) \o FilterSeq(Tail(s), keep)

\* All sequences over alphabet A of length at most n.
RECURSIVE SeqsUpTo(_, _)
SeqsUpTo(A, n) ==
  IF n = 0 THEN {<<>>}
  ELSE LET shorter == SeqsUpTo(A, n - 1)
       IN shorter \cup {Append(s, c) : s \in {t \in shorter : Len(t) = n - 1}, c \in A}

\* ------------------------------------------------------- command line input
NameAlphabet == {"P", "$"}
SuppliedNames == {Name(s) : s \in SeqsUpTo(NameAlphabet, MaxNameLen)}

DomainFQDN == <<"corp", "local">>
UserPlain == <<"j", "o", "e">>
UserMachine == <<"w", "s", "$">>

AllOptions ==
  [method : {"SAMR", "LDAPS", "WINRM"},
   computer_name : {NoName} \cup SuppliedNames,
   computer_pass : {None},
   no_add : BOOLEAN,
   delete : BOOLEAN,
   k : BOOLEAN,
   dc_host : {None, "dc01"},
   hashes : {None, "lm:nt"},
   domain_netbios : {None, "corp", "CORP", "builtin"},
   username : {UserPlain, UserMachine}]

\* Options an engine never reads are held at one value: the SAMR engine does
\* not look at the hashes or at the user name's last character, the LDAPS
\* engine does not look at the NetBIOS name, and an unsupported method is
\* rejected before anything else is read.
OptionSpace ==
  {o \in AllOptions :
     /\ o.method = "SAMR" => (o.hashes = None /\ o.username = UserPlain)
     /\ o.method = "LDAPS" => o.domain_netbios = None
     /\ o.method = "WINRM" =>
          (o.hashes = None /\ o.username = UserPlain /\ o.domain_netbios = None
             /\ ~o.k /\ o.dc_host = None /\ ~o.no_add /\ ~o.delete
             /\ o.computer_name = NoName)}

VARIABLES
  opts,            \* cmdLineOptions, username and domain as given to __init__
  self,            \* the private fields of the ADDCOMPUTER object
  pc,              \* position of the program
  trace,           \* protocol calls and log records issued so far, in order
  err,             \* the exception the run routine caught and logged
  escaped,         \* the exception that left __init__ or run(), if any
  servHandle,      \* doSAMRAdd local
  domainHandle,    \* doSAMRAdd local
  userHandle,      \* doSAMRAdd local
  openHandles,     \* SAMR handles the server holds open for this client
  selectedDomain,  \* doSAMRAdd local
  backend,         \* what the server has revealed: name -> number of accounts
  ldapConn,        \* the ldap3 connection: none / open / bound / closed
  taken            \* generated names the backend has reported as taken

vars == <<opts, self, pc, trace, err, escaped, servHandle, domainHandle,
          userHandle, openHandles, selectedDomain, backend, ldapConn, taken>>

samrLocals == <<servHandle, domainHandle, userHandle, openHandles, selectedDomain>>

\* One record of the trace: operation, handle or target it was issued on,
\* argument, result, and the message that came with the result.
EvMsg(op, h, arg, res, message) ==
  [op |-> op, h |-> h, arg |-> arg, res |-> res, message |-> message]
Ev(op, h, arg, res) == EvMsg(op, h, arg, res, <<>>)
LogCritical(e) == Ev("logging.critical", None, e.msg, "ok")
LogInfo(m) == Ev("logging.info", None, m, "ok")
LogError(m) == Ev("logging.error", None, m, "ok")

NoSelf == [constructed |-> FALSE]

Init ==
  /\ opts \in OptionSpace
  /\ self = NoSelf
  /\ pc = "start"
  /\ trace = <<>>
  /\ err = NoExc
  /\ escaped = NoExc
  /\ servHandle = None
  /\ domainHandle = None
  /\ userHandle = None
  /\ openHandles = {}
  /\ selectedDomain = None
  /\ backend = <<>>
  /\ ldapConn = "none"
  /\ taken = 0

\* ---------------------------------------------------------------- __init__
\* Lines 96-103: the computer name is required by -no-add and -delete, and
\* gets the trailing '$' when it lacks one.  The result is the exception
\* raised, or NoExc.
NameCheckNoDelete(o) ==
  IF o.computer_name.isNone
  THEN IF o.no_add THEN Exc("ValueError", None, "computer name required with -no-add")
       ELSE NoExc
  ELSE IF Len(o.computer_name.chars) = 0
       THEN Exc("IndexError", None, "string index out of range")
       ELSE NoExc

NameCheck(o) ==
  IF o.computer_name.isNone
  THEN IF o.no_add THEN Exc("ValueError", None, "computer name required with -no-add")
       ELSE IF o.delete THEN Exc("ValueError", None, "computer name required with -delete")
       ELSE NoExc
  ELSE IF Len(o.computer_name.chars) = 0
       THEN Exc("IndexError", None, "string index out of range")
       ELSE NoExc

ResolveName(n) ==
  IF n.isNone THEN n
  ELSE IF n.chars[Len(n.chars)] # "$" THEN Name(Append(n.chars, "$"))
  ELSE n

\* The first exception __init__ raises, in the order of its checks.
InitError(o) ==
  IF o.method \notin {"SAMR", "LDAPS"}
  THEN Exc("ValueError", None, "Unsupported method")
  ELSE IF o.k /\ o.dc_host = None
  THEN Exc("ValueError", None, "Kerberos auth requires DNS name of the target DC")
  ELSE NameCheck(o)

DefaultPort(method) == IF method = "SAMR" THEN 445 ELSE 636

BaseDN(domainParts) == [i \in 1..Len(domainParts) |-> <<"dc", domainParts[i]>>]

RandomPasswords == {"random32"}

Resolved(o, pw) ==
  [constructed |-> TRUE,
   username |-> o.username,
   domain |-> DomainFQDN,
   hashes |-> o.hashes,
   doKerberos |-> o.k,
   target |-> IF o.dc_host = None THEN "corp.local" ELSE o.dc_host,
   kdcHost |-> o.dc_host,
   computerName |-> ResolveName(o.computer_name),
   computerPassword |-> IF o.computer_pass = None THEN pw ELSE o.computer_pass,
   method |-> o.method,
   port |-> DefaultPort(o.method),
   domainNetbios |-> IF o.domain_netbios = None THEN "corp.local" ELSE o.domain_netbios,
   noAdd |-> o.no_add,
   delete |-> o.delete,
   baseDN |-> IF o.method = "LDAPS" THEN BaseDN(DomainFQDN) ELSE <<>>,
   computerGroup |-> IF o.method = "LDAPS"
                     THEN <<(<<"CN", "Computers">>)>> \o BaseDN(DomainFQDN)
                     ELSE <<>>]

ADDCOMPUTER_init ==
  /\ pc = "start"
  /\ LET e == InitError(opts)
     IN IF e # NoExc
        THEN /\ escaped' = e
             /\ pc' = "init_raised"
             /\ self' = self
        ELSE /\ \E pw \in RandomPasswords : self' = Resolved(opts, pw)
             /\ pc' = "run"
             /\ escaped' = escaped
  /\ UNCHANGED <<opts, trace, err, samrLocals, backend, ldapConn, taken>>

\* ---------------------------------------------------------------- run
run ==
  /\ pc = "run"
  /\ pc' = IF self.method = "SAMR" THEN "hept_map" ELSE "tls12"
  /\ UNCHANGED <<opts, self, trace, err, escaped, samrLocals, backend, ldapConn, taken>>

\* ------------------------------------------------------------ shared helpers
STATUS_NONE_MAPPED == "0xc0000073"
STATUS_ACCESS_DENIED == "0xc0000022"
STATUS_UNSUCCESSFUL == "0xc0000001"

SessionError(code) == Exc("DCERPCSessionError", code, "SAMR SessionError")
TransportError == Exc("Exception", None, "transport error")

\* What one protocol call can raise when nothing about the error is inspected.
CallFailures == {SessionError(STATUS_UNSUCCESSFUL)}

\* What hSamrLookupNamesInDomain and hSamrOpenUser can raise.
InspectedFailures ==
  {SessionError(STATUS_NONE_MAPPED), SessionError(STATUS_ACCESS_DENIED),
   SessionError(STATUS_UNSUCCESSFUL), TransportError}

ResultOf(e) == IF e = NoExc THEN "ok" ELSE IF e.code # None THEN e.code ELSE e.type

\* generateComputerName: 'DESKTOP-' + 8 characters of A-Z0-9 + '$'.
GenSuffixLen == 8
GenAlphabet ==
  <<"A", "B", "C", "D", "E", "F", "G", "H", "I", "J", "K", "L", "M",
    "N", "O", "P", "Q", "R", "S", "T", "U", "V", "W", "X", "Y", "Z",
    "0", "1", "2", "3", "4", "5", "6", "7", "8", "9">>
generateComputerName(i) ==
  Name(<<"D", "E", "S", "K", "T", "O", "P", "-">>
       \o [j \in 1..GenSuffixLen |-> IF j < GenSuffixLen THEN "A" ELSE GenAlphabet[i]]
       \o <<"$">>)
GeneratedNames == {generateComputerName(i) : i \in 1..MaxGen}

\* The backend answers consistently: once it has revealed how many accounts
\* carry a name, later lookups of that name agree with it.
Reveals(n, c) == n.chars \notin DOMAIN backend \/ backend[n.chars] = c
Revealed(n, c) == (n.chars :> c) @@ backend
\* One more account carries the name n, which has been looked up before.
Added(n) == Revealed(n, backend[n.chars] + 1)

\* ---------------------------------------------------------------- run_samr
\* Lines 137-154: endpoint resolution and transport set-up run outside any
\* try block, so what they raise leaves run_samr.
run_samr ==
  /\ pc = "hept_map"
  /\ \E e \in {NoExc, TransportError} :
       /\ trace' = Append(trace, Ev("epm.hept_map", None, self.target, ResultOf(e)))
       /\ IF e = NoExc
          THEN pc' = "connect" /\ escaped' = escaped
          ELSE pc' = "run_raised" /\ escaped' = e
  /\ UNCHANGED <<opts, self, err, samrLocals, backend, ldapConn, taken>>

\* ---------------------------------------------------------------- doSAMRAdd
\* An exception raised inside the try block (lines 347-446) is caught by the
\* except clause (448-453), which logs it; control then enters the finally
\* block.  evs are the records of the step that raised.
SamrCaught(evs, e) ==
  /\ trace' = trace \o evs \o <<LogCritical(e)>>
  /\ err' = e
  /\ pc' = "fin_user"

\* The try block ended without raising.
SamrDone(evs) ==
  /\ trace' = trace \o evs
  /\ err' = err
  /\ pc' = "fin_user"

SamrStep(evs, next) ==
  /\ trace' = trace \o evs
  /\ err' = err
  /\ pc' = next

doSAMRAdd_connect ==
  /\ pc = "connect"
  /\ \E e \in {NoExc, TransportError} :
       LET ev == Ev("dce.connect", None, None, ResultOf(e))
       IN IF e = NoExc THEN SamrStep(<<ev>>, "bind") ELSE SamrCaught(<<ev>>, e)
  /\ UNCHANGED <<opts, self, escaped, samrLocals, backend, ldapConn, taken>>

doSAMRAdd_bind ==
  /\ pc = "bind"
  /\ \E e \in {NoExc, TransportError} :
       LET ev == Ev("dce.bind", None, "MSRPC_UUID_SAMR", ResultOf(e))
       IN IF e = NoExc THEN SamrStep(<<ev>>, "connect5") ELSE SamrCaught(<<ev>>, e)
  /\ UNCHANGED <<opts, self, escaped, samrLocals, backend, ldapConn, taken>>

\* Lines 351-353.
doSAMRAdd_hSamrConnect5 ==
  /\ pc = "connect5"
  /\ \E e \in {NoExc} \cup CallFailures :
       LET ev == Ev("hSamrConnect5", None, self.target, ResultOf(e))
       IN IF e = NoExc
          THEN /\ SamrStep(<<ev>>, "enumerate")
               /\ servHandle' = "hServer"
               /\ openHandles' = openHandles \cup {"hServer"}
          ELSE /\ SamrCaught(<<ev>>, e)
               /\ UNCHANGED <<servHandle, openHandles>>
  /\ UNCHANGED <<opts, self, escaped, domainHandle, userHandle, selectedDomain,
                 backend, ldapConn, taken>>

\* The domain lists the server may enumerate.
DomainLists ==
  {<<>>, <<"Builtin">>, <<"CORP", "Builtin">>, <<"Builtin", "corp">>,
   <<"CORP", "LAB", "Builtin">>, <<"corp", "lab", "Builtin">>}

NamesOf(domains) == {domains[i] : i \in 1..Len(domains)}

\* Line 357.
DomainsWithoutBuiltin(domains) ==
  FilterSeq(domains, {d \in NamesOf(domains) : Lower(d) # "builtin"})

\* Line 360: the candidates are filtered out of the full list.
NetbiosMatches(domains, netbios) ==
  FilterSeq(domains, {d \in NamesOf(domains) : Lower(d) = netbios})

\* Lines 359-371: the selected domain name, or the exception raised.
SelectDomain(domains, netbios) ==
  LET nb == DomainsWithoutBuiltin(domains)
      m == NetbiosMatches(domains, netbios)
  IN IF Len(nb) > 1
     THEN IF Len(m) # 1
          THEN [name |-> None, exc |-> Exc("Exception", None, ""), ambiguous |-> TRUE]
          ELSE [name |-> m[1], exc |-> NoExc, ambiguous |-> FALSE]
     ELSE IF Len(nb) = 0
          THEN [name |-> None, exc |-> Exc("IndexError", None, "list index out of range"),
                ambiguous |-> FALSE]
          ELSE [name |-> nb[1], exc |-> NoExc, ambiguous |-> FALSE]

\* Lines 355-371.
doSAMRAdd_EnumerateDomains ==
  /\ pc = "enumerate"
  /\ \/ \E e \in CallFailures :
          /\ SamrCaught(<<Ev("hSamrEnumerateDomainsInSamServer", servHandle, None,
                            ResultOf(e))>>, e)
          /\ selectedDomain' = selectedDomain
     \/ \E domains \in DomainLists :
          LET ev == Ev("hSamrEnumerateDomainsInSamServer", servHandle, domains, "ok")
              sel == SelectDomain(domains, self.domainNetbios)
          IN IF sel.exc = NoExc
             THEN /\ SamrStep(<<ev>>, "lookup_domain")
                  /\ selectedDomain' = sel.name
             ELSE /\ SamrCaught(
                       IF sel.ambiguous
                       THEN <<ev, Ev("logging.critical", None,
                                     "This server provides multiple domains", "ok")>>
                       ELSE <<ev>>, sel.exc)
                  /\ selectedDomain' = selectedDomain
  /\ UNCHANGED <<opts, self, escaped, servHandle, domainHandle, userHandle,
                 openHandles, backend, ldapConn, taken>>

\* Lines 373-374.
doSAMRAdd_LookupDomain ==
  /\ pc = "lookup_domain"
  /\ \E e \in {NoExc} \cup CallFailures :
       LET ev == Ev("hSamrLookupDomainInSamServer", servHandle, selectedDomain, ResultOf(e))
       IN IF e = NoExc THEN SamrStep(<<ev>>, "open_domain") ELSE SamrCaught(<<ev>>, e)
  /\ UNCHANGED <<opts, self, escaped, samrLocals, backend, ldapConn, taken>>

\* Line 382 and line 407: where the try block goes once the domain is open.
AfterOpenDomain(s) ==
  IF s.noAdd \/ s.delete THEN "lookup_existing"
  ELSE IF ~s.computerName.isNone THEN "check_new"
  ELSE "generate"

\* Lines 378-379.
doSAMRAdd_OpenDomain ==
  /\ pc = "open_domain"
  /\ \E e \in {NoExc} \cup CallFailures :
       LET ev == Ev("hSamrOpenDomain", servHandle, selectedDomain, ResultOf(e))
       IN IF e = NoExc
          THEN /\ SamrStep(<<ev>>, AfterOpenDomain(self))
               /\ domainHandle' = "hDomain"
               /\ openHandles' = openHandles \cup {"hDomain"}
          ELSE /\ SamrCaught(<<ev>>, e)
               /\ UNCHANGED <<domainHandle, openHandles>>
  /\ UNCHANGED <<opts, self, escaped, servHandle, userHandle, selectedDomain,
                 backend, ldapConn, taken>>

\* What hSamrLookupNamesInDomain answers for name n: found (NoExc) when an
\* account carries the name, STATUS_NONE_MAPPED when none does, or another
\* failure.  The answer reveals the backend's content.
LookupAnswers(n) ==
  {a \in [exc : {NoExc} \cup InspectedFailures, count : {0, 1}] :
     /\ a.exc = NoExc => (a.count = 1 /\ Reveals(n, 1))
     /\ a.exc = SessionError(STATUS_NONE_MAPPED) => (a.count = 0 /\ Reveals(n, 0))
     /\ a.exc \notin {NoExc, SessionError(STATUS_NONE_MAPPED)} => a.count = 0}

AfterLookup(n, a) ==
  IF a.exc \in {NoExc, SessionError(STATUS_NONE_MAPPED)}
  THEN Revealed(n, a.count) ELSE backend

LookupEv(n, a) == Ev("hSamrLookupNamesInDomain", domainHandle, n.chars, ResultOf(a.exc))

\* Lines 385-389: the exception the SetPassword/Delete lookup ends in.
LookupExistingRaisesIgnoringNotFound(e) ==
  IF e.type = "DCERPCSessionError" /\ e.code = STATUS_NONE_MAPPED THEN NoExc ELSE e

LookupExistingRaises(e) ==
  IF e.type = "DCERPCSessionError"
  THEN IF e.code = STATUS_NONE_MAPPED
       THEN Exc("Exception", None, "Account not found in domain")
       ELSE e
  ELSE e

\* Lines 383-391.
doSAMRAdd_LookupExisting ==
  /\ pc = "lookup_existing"
  /\ \E a \in LookupAnswers(self.computerName) :
       LET r == LookupExistingRaises(a.exc)
       IN /\ backend' = AfterLookup(self.computerName, a)
          /\ IF r = NoExc
             THEN SamrStep(<<LookupEv(self.computerName, a)>>, "open_user")
             ELSE SamrCaught(<<LookupEv(self.computerName, a)>>, r)
  /\ UNCHANGED <<opts, self, escaped, samrLocals, ldapConn, taken>>

\* Lines 392-397.
AccessForMaximum(s) == "MAXIMUM_ALLOWED"

AccessFor(s) == IF s.delete THEN "DELETE" ELSE "USER_FORCE_PASSWORD_CHANGE"

\* Lines 401-405.
OpenUserRaises(e) ==
  IF e.type = "DCERPCSessionError"
  THEN IF e.code = STATUS_ACCESS_DENIED
       THEN Exc("Exception", None, "User doesn't have right")
       ELSE e
  ELSE e

\* Line 429: where the try block goes once it holds a user handle.
Finalize(s) == IF s.delete THEN "delete_user" ELSE "set_password"

\* Lines 392-405.
doSAMRAdd_OpenUser ==
  /\ pc = "open_user"
  /\ \E e \in {NoExc} \cup InspectedFailures :
       LET ev == Ev("hSamrOpenUser", domainHandle, AccessFor(self), ResultOf(e))
       IN IF e = NoExc
          THEN /\ SamrStep(<<ev>>, Finalize(self))
               /\ userHandle' = "hUserOpened"
               /\ openHandles' = openHandles \cup {"hUserOpened"}
          ELSE /\ SamrCaught(<<ev>>, OpenUserRaises(e))
               /\ UNCHANGED <<userHandle, openHandles>>
  /\ UNCHANGED <<opts, self, escaped, servHandle, domainHandle, selectedDomain,
                 backend, ldapConn, taken>>

\* Lines 408-413: what the Create lookup of a supplied name leads to:
\* "exists" (raise: the account already exists), "absent" (go on to create)
\* or "reraise".
CheckNewOutcomeIgnoringFound(e) ==
  IF e = NoExc THEN "absent"
  ELSE IF e.type = "DCERPCSessionError" /\ e.code = STATUS_NONE_MAPPED THEN "absent"
  ELSE "reraise"

CheckNewOutcome(e) ==
  IF e = NoExc THEN "exists"
  ELSE IF e.type = "DCERPCSessionError" /\ e.code = STATUS_NONE_MAPPED THEN "absent"
  ELSE "reraise"

AlreadyExists == Exc("Exception", None, "Account already exists")

\* Lines 407-413.
doSAMRAdd_CheckNew ==
  /\ pc = "check_new"
  /\ \E a \in LookupAnswers(self.computerName) :
       LET o == CheckNewOutcome(a.exc)
           ev == LookupEv(self.computerName, a)
       IN /\ backend' = AfterLookup(self.computerName, a)
          /\ IF o = "absent" THEN SamrStep(<<ev>>, "create_user")
             ELSE IF o = "exists" THEN SamrCaught(<<ev>>, AlreadyExists)
             ELSE SamrCaught(<<ev>>, a.exc)
  /\ UNCHANGED <<opts, self, escaped, samrLocals, ldapConn, taken>>

\* Lines 420-424: what one probe of a generated name leads to: "unused"
\* (foundUnused = True), "again" (the loop runs once more) or "reraise".
ProbeOutcomeAcceptingFound(e) ==
  IF e = NoExc THEN "unused"
  ELSE IF e.type = "DCERPCSessionError" /\ e.code = STATUS_NONE_MAPPED THEN "unused"
  ELSE "reraise"

ProbeOutcome(e) ==
  IF e = NoExc THEN "again"
  ELSE IF e.type = "DCERPCSessionError" /\ e.code = STATUS_NONE_MAPPED THEN "unused"
  ELSE "reraise"

\* Lines 416-424: one iteration of the loop.
doSAMRAdd_GenerateName ==
  /\ pc = "generate"
  /\ \E n \in GeneratedNames : \E a \in LookupAnswers(n) :
       LET o == ProbeOutcome(a.exc)
           ev == LookupEv(n, a)
       IN /\ a.exc = NoExc => taken < MaxTaken
          /\ self' = [self EXCEPT !.computerName = n]
          /\ backend' = AfterLookup(n, a)
          /\ taken' = IF a.exc = NoExc THEN taken + 1 ELSE taken
          /\ IF o = "unused" THEN SamrStep(<<ev>>, "create_user")
             ELSE IF o = "again" THEN SamrStep(<<ev>>, "generate")
             ELSE SamrCaught(<<ev>>, a.exc)
  /\ UNCHANGED <<opts, escaped, samrLocals, ldapConn>>

\* Line 427: the account type and the access asked for on the new handle.
CreateUserArgs == <<"USER_WORKSTATION_TRUST_ACCOUNT", "USER_FORCE_PASSWORD_CHANGE">>

\* Lines 426-427.
doSAMRAdd_CreateUser ==
  /\ pc = "create_user"
  /\ \E e \in {NoExc} \cup CallFailures :
       LET ev == EvMsg("hSamrCreateUser2InDomain", domainHandle, self.computerName.chars,
                       ResultOf(e), CreateUserArgs)
       IN IF e = NoExc
          THEN /\ SamrStep(<<ev>>, Finalize(self))
               /\ userHandle' = "hUserCreated"
               /\ openHandles' = openHandles \cup {"hUserCreated"}
               /\ backend' = Revealed(self.computerName, 1)
          ELSE /\ SamrCaught(<<ev>>, e)
               /\ UNCHANGED <<userHandle, openHandles, backend>>
  /\ UNCHANGED <<opts, self, escaped, servHandle, domainHandle, selectedDomain,
                 ldapConn, taken>>

\* Line 432: the local after hSamrDeleteUser returned for handle h.
UserHandleAfterDeleteKept(h) == h

UserHandleAfterDelete(h) == None

\* Lines 430-432: deleting the account also frees its handle on the server.
doSAMRAdd_DeleteUser ==
  /\ pc = "delete_user"
  /\ \E e \in {NoExc} \cup CallFailures :
       LET ev == Ev("hSamrDeleteUser", userHandle, None, ResultOf(e))
       IN IF e = NoExc
          THEN /\ SamrDone(<<ev, LogInfo("Successfully deleted")>>)
               /\ openHandles' = openHandles \ {userHandle}
               /\ userHandle' = UserHandleAfterDelete(userHandle)
               /\ backend' = Revealed(self.computerName, 0)
          ELSE /\ SamrCaught(<<ev>>, e)
               /\ UNCHANGED <<userHandle, openHandles, backend>>
  /\ UNCHANGED <<opts, self, escaped, servHandle, domainHandle, selectedDomain,
                 ldapConn, taken>>

\* Lines 434-436.
doSAMRAdd_SetPassword ==
  /\ pc = "set_password"
  /\ \E e \in {NoExc} \cup CallFailures :
       LET ev == Ev("hSamrSetPasswordInternal4New", userHandle, self.computerPassword,
                    ResultOf(e))
       IN IF e # NoExc THEN SamrCaught(<<ev>>, e)
          ELSE IF self.noAdd THEN SamrDone(<<ev, LogInfo("Successfully set password")>>)
          ELSE SamrStep(<<ev>>, "lookup_created")
  /\ UNCHANGED <<opts, self, escaped, samrLocals, backend, ldapConn, taken>>

\* Lines 438-439: the account was created by this run, so the lookup finds it
\* unless the call itself fails.
doSAMRAdd_LookupCreated ==
  /\ pc = "lookup_created"
  /\ \E e \in {NoExc} \cup CallFailures :
       LET ev == Ev("hSamrLookupNamesInDomain", domainHandle, self.computerName.chars,
                    ResultOf(e))
       IN IF e = NoExc THEN SamrStep(<<ev>>, "open_created") ELSE SamrCaught(<<ev>>, e)
  /\ UNCHANGED <<opts, self, escaped, samrLocals, backend, ldapConn, taken>>

\* Lines 440-441: the new handle replaces the one hSamrCreateUser2InDomain gave.
doSAMRAdd_OpenCreated ==
  /\ pc = "open_created"
  /\ \E e \in {NoExc} \cup CallFailures :
       LET ev == Ev("hSamrOpenUser", domainHandle, "MAXIMUM_ALLOWED", ResultOf(e))
       IN IF e = NoExc
          THEN /\ SamrStep(<<ev>>, "set_information")
               /\ userHandle' = "hUserReopened"
               /\ openHandles' = openHandles \cup {"hUserReopened"}
          ELSE /\ SamrCaught(<<ev>>, e)
               /\ UNCHANGED <<userHandle, openHandles>>
  /\ UNCHANGED <<opts, self, escaped, servHandle, domainHandle, selectedDomain,
                 backend, ldapConn, taken>>

\* Lines 442-446.
doSAMRAdd_SetInformation ==
  /\ pc = "set_information"
  /\ \E e \in {NoExc} \cup CallFailures :
       LET ev == Ev("hSamrSetInformationUser2", userHandle, "USER_WORKSTATION_TRUST_ACCOUNT",
                    ResultOf(e))
       IN IF e = NoExc
          THEN SamrDone(<<ev, LogInfo("Successfully added machine account")>>)
          ELSE SamrCaught(<<ev>>, e)
  /\ UNCHANGED <<opts, self, escaped, samrLocals, backend, ldapConn, taken>>

\* Lines 454-461, the finally block.  One step closes one handle, or passes
\* over it when the local is None.  What hSamrCloseHandle or disconnect
\* raises leaves the finally block, doSAMRAdd and run_samr.
FinallyCloseSkipped(handle, next) ==
  /\ pc' = next
  /\ UNCHANGED <<trace, escaped, openHandles>>

FinallyCloseUnguarded(handle, next) ==
  \E e \in {NoExc} \cup CallFailures :
    /\ trace' = Append(trace, Ev("hSamrCloseHandle", handle, None, ResultOf(e)))
    /\ IF e = NoExc
       THEN /\ pc' = next
            /\ openHandles' = openHandles \ {handle}
            /\ escaped' = escaped
       ELSE /\ pc' = "run_raised"
            /\ escaped' = e
            /\ openHandles' = openHandles

FinallyClose(handle, next) ==
  IF handle = None
  THEN /\ pc' = next
       /\ UNCHANGED <<trace, escaped, openHandles>>
  ELSE \E e \in {NoExc} \cup CallFailures :
         /\ trace' = Append(trace, Ev("hSamrCloseHandle", handle, None, ResultOf(e)))
         /\ IF e = NoExc
            THEN /\ pc' = next
                 /\ openHandles' = openHandles \ {handle}
                 /\ escaped' = escaped
            ELSE /\ pc' = "run_raised"
                 /\ escaped' = e
                 /\ openHandles' = openHandles

doSAMRAdd_finally_user ==
  /\ pc = "fin_user"
  /\ FinallyClose(userHandle, "fin_domain")
  /\ UNCHANGED <<opts, self, err, servHandle, domainHandle, userHandle,
                 selectedDomain, backend, ldapConn, taken>>

doSAMRAdd_finally_domain ==
  /\ pc = "fin_domain"
  /\ FinallyClose(domainHandle, "fin_server")
  /\ UNCHANGED <<opts, self, err, servHandle, domainHandle, userHandle,
                 selectedDomain, backend, ldapConn, taken>>

doSAMRAdd_finally_server ==
  /\ pc = "fin_server"
  /\ FinallyClose(servHandle, "disconnect")
  /\ UNCHANGED <<opts, self, err, servHandle, domainHandle, userHandle,
                 selectedDomain, backend, ldapConn, taken>>

\* Line 461.
doSAMRAdd_disconnect ==
  /\ pc = "disconnect"
  /\ \E e \in {NoExc, TransportError} :
       /\ trace' = Append(trace, Ev("dce.disconnect", None, None, ResultOf(e)))
       /\ IF e = NoExc
          THEN pc' = "returned" /\ escaped' = escaped
          ELSE pc' = "run_raised" /\ escaped' = e
  /\ UNCHANGED <<opts, self, err, samrLocals, backend, ldapConn, taken>>

SamrNext ==
  \/ run_samr
  \/ doSAMRAdd_connect
  \/ doSAMRAdd_bind
  \/ doSAMRAdd_hSamrConnect5
  \/ doSAMRAdd_EnumerateDomains
  \/ doSAMRAdd_LookupDomain
  \/ doSAMRAdd_OpenDomain
  \/ doSAMRAdd_LookupExisting
  \/ doSAMRAdd_OpenUser
  \/ doSAMRAdd_CheckNew
  \/ doSAMRAdd_GenerateName
  \/ doSAMRAdd_CreateUser
  \/ doSAMRAdd_DeleteUser
  \/ doSAMRAdd_SetPassword
  \/ doSAMRAdd_LookupCreated
  \/ doSAMRAdd_OpenCreated
  \/ doSAMRAdd_SetInformation
  \/ doSAMRAdd_finally_user
  \/ doSAMRAdd_finally_domain
  \/ doSAMRAdd_finally_server
  \/ doSAMRAdd_disconnect

\* ---------------------------------------------------------------- run_ldaps
\* An exception raised inside the try block (lines 217-322) is caught by the
\* except clause (323-328), which logs it; run_ldaps then returns.
\* ldap3 closes the socket before it raises a communication error.
LdapCaught(evs, e) ==
  /\ trace' = trace \o evs \o <<LogCritical(e)>>
  /\ err' = e
  /\ pc' = "returned"
  /\ ldapConn' = IF e.type = "LDAPCommunicationError" THEN "closed" ELSE ldapConn

LdapStep(evs, next) ==
  /\ trace' = trace \o evs
  /\ err' = err
  /\ pc' = next
  /\ ldapConn' = ldapConn

LDAPSocketOpenError == Exc("LDAPSocketOpenError", None, "socket ssl wrapping error")
LDAPCommunicationError == Exc("LDAPCommunicationError", None, "socket receive error")
AuthenticationError == Exc("Exception", None, "bind response")
BindFailed == Exc("Exception", None, "ldapConn.result")

\* Lines 222-231: which of the three branches authenticates.
AuthKind(s) ==
  IF s.doKerberos THEN "kerberos"
  ELSE IF s.hashes # None THEN "ntlm_hashes"
  ELSE "ntlm_password"

\* What one attempt to open and bind the connection can end in: "True" and
\* "False" are the values bind() returns, the rest are raised.  The Kerberos
\* login raises when the bind is refused.
BindResults(kind) ==
  IF kind = "kerberos"
  THEN {"True", "LDAPSocketOpenError", "AuthenticationError", "LDAPCommunicationError"}
  ELSE {"True", "False", "LDAPSocketOpenError", "LDAPCommunicationError"}

BindException(r) ==
  CASE r = "LDAPSocketOpenError" -> LDAPSocketOpenError
    [] r = "AuthenticationError" -> AuthenticationError
    [] r = "LDAPCommunicationError" -> LDAPCommunicationError
    [] OTHER -> NoExc

\* The connection after the attempt: bound, open but not bound (the bind
\* was refused), never opened, or closed again by ldap3.
ConnAfterBind(r) ==
  CASE r = "True" -> "bound"
    [] r = "LDAPSocketOpenError" -> "none"
    [] r = "LDAPCommunicationError" -> "closed"
    [] OTHER -> "open"

\* Lines 252, 278: where the try block goes once the session is set up.
AfterSession(s) ==
  IF s.noAdd \/ s.delete THEN "ldap_exists"
  ELSE IF ~s.computerName.isNone THEN "ldap_check_new"
  ELSE "ldap_generate"

\* Lines 219-233: the attempt with TLS 1.2.  The value bind() returns is not
\* looked at.
run_ldaps_tls12 ==
  /\ pc = "tls12"
  /\ \E r \in BindResults(AuthKind(self)) :
       LET ev == Ev("ldapConn.bind", "PROTOCOL_TLSv1_2", AuthKind(self), r)
           e == BindException(r)
       IN /\ ldapConn' = ConnAfterBind(r)
          /\ trace' = trace \o (IF e \in {NoExc, LDAPSocketOpenError}
                                THEN <<ev>> ELSE <<ev, LogCritical(e)>>)
          /\ err' = IF e \in {NoExc, LDAPSocketOpenError} THEN err ELSE e
          /\ pc' = IF e = NoExc THEN AfterSession(self)
                   ELSE IF e = LDAPSocketOpenError THEN "tls1"
                   ELSE "returned"
  /\ UNCHANGED <<opts, self, escaped, samrLocals, backend, taken>>

\* Lines 235-248: the attempt with TLS 1.  Only the branch that binds with
\* the hashes looks at what bind() returns.
run_ldaps_tls1 ==
  /\ pc = "tls1"
  /\ \E r \in BindResults(AuthKind(self)) :
       LET ev == Ev("ldapConn.bind", "PROTOCOL_TLSv1", AuthKind(self), r)
           e == IF r = "False" /\ AuthKind(self) = "ntlm_hashes"
                THEN BindFailed ELSE BindException(r)
       IN /\ ldapConn' = ConnAfterBind(r)
          /\ trace' = trace \o (IF e = NoExc THEN <<ev>> ELSE <<ev, LogCritical(e)>>)
          /\ err' = IF e = NoExc THEN err ELSE e
          /\ pc' = IF e = NoExc THEN AfterSession(self) ELSE "returned"
  /\ UNCHANGED <<opts, self, escaped, samrLocals, backend, taken>>

\* Lines 331-333: the value LDAPComputerExists returns when the search
\* yields count entries.
LDAPComputerExists(count) == count = 1

\* What a search for sAMAccountName = n can answer: a number of entries, or
\* -1 when the search raises.
SearchAnswers(n) == {-1} \cup {c \in 0..MaxEntries : Reveals(n, c)}

AfterSearch(n, c) == IF c = -1 THEN backend ELSE Revealed(n, c)

BoolStr(b) == IF b THEN "True" ELSE "False"

ExistsEv(n, c) ==
  Ev("LDAPComputerExists", None, n.chars,
     IF c = -1 THEN "LDAPCommunicationError" ELSE BoolStr(LDAPComputerExists(c)))

\* Lines 253-254.
run_ldaps_Exists ==
  /\ pc = "ldap_exists"
  /\ \E c \in SearchAnswers(self.computerName) :
       LET ev == ExistsEv(self.computerName, c)
       IN /\ backend' = AfterSearch(self.computerName, c)
          /\ IF c = -1 THEN LdapCaught(<<ev>>, LDAPCommunicationError)
             ELSE IF ~LDAPComputerExists(c)
             THEN LdapCaught(<<ev>>, Exc("Exception", None, "Account not found"))
             ELSE LdapStep(<<ev>>, "ldap_get")
  /\ UNCHANGED <<opts, self, escaped, samrLocals, taken>>

\* Lines 256 and 335-337: entries[0] of a second search.
run_ldaps_GetComputer ==
  /\ pc = "ldap_get"
  /\ \E c \in SearchAnswers(self.computerName) :
       LET ev == Ev("LDAPGetComputer", None, self.computerName.chars,
                    IF c = -1 THEN "LDAPCommunicationError" ELSE "ok")
       IN /\ backend' = AfterSearch(self.computerName, c)
          /\ IF c = -1 THEN LdapCaught(<<ev>>, LDAPCommunicationError)
             ELSE IF c = 0
             THEN LdapCaught(<<ev>>, Exc("IndexError", None, "list index out of range"))
             ELSE LdapStep(<<ev>>, "ldap_mutate")
  /\ UNCHANGED <<opts, self, escaped, samrLocals, taken>>

\* Result codes of a directory operation that did not succeed.
FailureResults == {"insufficientAccessRights", "unwillingToPerform", "other"}

\* Lines 258-263: the operation issued on the entry.
MutationOp(s) == IF s.delete THEN "ldapConn.delete" ELSE "ldapConn.modify"

\* Lines 267-270.
MutateRaisesGeneric(result) == Exc("Exception", None, "ldapConn.result")

MutateRaises(result) ==
  IF result = "insufficientAccessRights"
  THEN Exc("Exception", None, "User doesn't have right")
  ELSE Exc("Exception", None, "ldapConn.result")

\* Lines 272-275: the message logged on success.
MutateSuccessMessage(s) ==
  IF s.noAdd THEN "Succesfully set password" ELSE "Succesfully deleted"

\* Lines 258-275.
run_ldaps_Mutate ==
  /\ pc = "ldap_mutate"
  /\ \E r \in {"success", "LDAPCommunicationError"} \cup FailureResults :
       LET ev == Ev(MutationOp(self), None, self.computerName.chars, r)
       IN /\ backend' = IF r = "success" /\ self.delete
                        THEN Revealed(self.computerName, 0) ELSE backend
          /\ IF r = "LDAPCommunicationError" THEN LdapCaught(<<ev>>, LDAPCommunicationError)
             ELSE IF r = "success"
             THEN LdapStep(<<ev, LogInfo(MutateSuccessMessage(self))>>, "returned")
             ELSE LdapCaught(<<ev>>, MutateRaises(r))
  /\ UNCHANGED <<opts, self, escaped, samrLocals, taken>>

\* Lines 278-280.
run_ldaps_CheckNew ==
  /\ pc = "ldap_check_new"
  /\ \E c \in SearchAnswers(self.computerName) :
       LET ev == ExistsEv(self.computerName, c)
       IN /\ backend' = AfterSearch(self.computerName, c)
          /\ IF c = -1 THEN LdapCaught(<<ev>>, LDAPCommunicationError)
             ELSE IF LDAPComputerExists(c) THEN LdapCaught(<<ev>>, AlreadyExists)
             ELSE LdapStep(<<ev>>, "ldap_add")
  /\ UNCHANGED <<opts, self, escaped, samrLocals, taken>>

\* Lines 282-285: one iteration of the loop.
run_ldaps_GenerateName ==
  /\ pc = "ldap_generate"
  /\ \E n \in GeneratedNames : \E c \in SearchAnswers(n) :
       LET ev == ExistsEv(n, c)
       IN /\ (c # -1 /\ LDAPComputerExists(c)) => taken < MaxTaken
          /\ self' = [self EXCEPT !.computerName = n]
          /\ backend' = AfterSearch(n, c)
          /\ taken' = IF c # -1 /\ LDAPComputerExists(c) THEN taken + 1 ELSE taken
          /\ IF c = -1 THEN LdapCaught(<<ev>>, LDAPCommunicationError)
             ELSE IF LDAPComputerExists(c) THEN LdapStep(<<ev>>, "ldap_generate")
             ELSE LdapStep(<<ev>>, "ldap_add")
  /\ UNCHANGED <<opts, escaped, samrLocals>>

\* ---- the sub-code in the message of an 'unwilling to perform' result ----
\* str.split(':')[0]: the text before the first colon.
RECURSIVE BeforeColon(_)
BeforeColon(m) ==
  IF m = <<>> \/ Head(m) = ":" THEN <<>> ELSE <<Head(m)>> \o BeforeColon(Tail(m))

\* str.strip() for blanks.
RECURSIVE StripLeft(_)
StripLeft(m) == IF m # <<>> /\ Head(m) = " " THEN StripLeft(Tail(m)) ELSE m
RECURSIVE StripRight(_)
StripRight(m) ==
  IF m # <<>> /\ m[Len(m)] = " " THEN StripRight(DropLast(m)) ELSE m
Strip(m) == StripRight(StripLeft(m))

HexDigits ==
  <<"0", "1", "2", "3", "4", "5", "6", "7", "8", "9", "A", "B", "C", "D", "E", "F">>
HexLower(c) ==
  CASE c = "a" -> "A" [] c = "b" -> "B" [] c = "c" -> "C"
    [] c = "d" -> "D" [] c = "e" -> "E" [] c = "f" -> "F" [] OTHER -> c
IsHexDigit(c) == \E i \in 1..16 : HexDigits[i] = HexLower(c)
HexValue(c) == (CHOOSE i \in 1..16 : HexDigits[i] = HexLower(c)) - 1

RECURSIVE HexNumber(_, _)
HexNumber(m, acc) ==
  IF m = <<>> THEN acc ELSE HexNumber(Tail(m), acc * 16 + HexValue(Head(m)))

\* int(text, 16): the number, or -1 where int raises ValueError.  An
\* optional 0x prefix is accepted.
IntBase16(text) ==
  LET body == IF Len(text) >= 2 /\ text[1] = "0" /\ text[2] \in {"x", "X"}
              THEN SubSeq(text, 3, Len(text)) ELSE text
  IN IF body = <<>> \/ \E i \in 1..Len(body) : ~IsHexDigit(body[i])
     THEN -1
     ELSE HexNumber(body, 0)

\* Line 309.
ErrorCode(message) == IntBase16(Strip(BeforeColon(message)))

\* Line 310: the sub-code for 'machine account quota exceeded'.
QuotaExceeded == 8557

\* Messages a server may attach to 'unwilling to perform'.
UnwillingMessages ==
  {<<"0", "0", "0", "0", "2", "1", "6", "D", ":", " ", "S", "v", "c">>,
   <<" ", "2", "1", "6", "d", " ", ":", "x">>,
   <<"0", "0", "0", "0", "0", "5", "2", "D", ":", " ", "S", "v", "c">>,
   <<"S", "v", "c", "E", "r", "r">>}

\* Lines 307-320: what a failed add leads to: "bypass" (quota exceeded and
\* the caller is a machine account), "quota" (quota exceeded, nothing more
\* is done), or "raise" with the exception.
AddFailureAnyPrincipal(result, message, username) ==
  IF result = "unwillingToPerform"
  THEN IF ErrorCode(message) = -1
       THEN [do |-> "raise", exc |-> Exc("ValueError", None, "invalid literal for int()")]
       ELSE IF ErrorCode(message) = QuotaExceeded
            THEN [do |-> "bypass", exc |-> NoExc]
            ELSE [do |-> "raise", exc |-> Exc("Exception", None, "ldapConn.result")]
  ELSE IF result = "insufficientAccessRights"
       THEN [do |-> "raise", exc |-> Exc("Exception", None, "User doesn't have right")]
       ELSE [do |-> "raise", exc |-> Exc("Exception", None, "ldapConn.result")]

AddFailure(result, message, username) ==
  IF result = "unwillingToPerform"
  THEN IF ErrorCode(message) = -1
       THEN [do |-> "raise", exc |-> Exc("ValueError", None, "invalid literal for int()")]
       ELSE IF ErrorCode(message) = QuotaExceeded
            THEN IF EndsWith(username, "$")
                 THEN [do |-> "bypass", exc |-> NoExc]
                 ELSE [do |-> "quota", exc |-> NoExc]
            ELSE [do |-> "raise", exc |-> Exc("Exception", None, "ldapConn.result")]
  ELSE IF result = "insufficientAccessRights"
       THEN [do |-> "raise", exc |-> Exc("Exception", None, "User doesn't have right")]
       ELSE [do |-> "raise", exc |-> Exc("Exception", None, "ldapConn.result")]

\* The results of ldapConn.add: the result code and, for 'unwilling to
\* perform', the message.
AddResults ==
  {[result |-> r, message |-> <<>>] :
     r \in {"success", "LDAPCommunicationError", "insufficientAccessRights", "other"}}
  \cup {[result |-> "unwillingToPerform", message |-> m] : m \in UnwillingMessages}

QuotaLog == Ev("logging.critical", None, "machine quota exceeded", "ok")

\* Lines 288-322.
run_ldaps_Add ==
  /\ pc = "ldap_add"
  /\ \E r \in AddResults :
       LET ev == EvMsg("ldapConn.add", "computerDn", self.computerName.chars, r.result,
                       r.message)
           f == AddFailure(r.result, r.message, self.username)
       IN /\ backend' = IF r.result = "success" THEN Added(self.computerName) ELSE backend
          /\ IF r.result = "LDAPCommunicationError"
             THEN LdapCaught(<<ev>>, LDAPCommunicationError)
             ELSE IF r.result = "success"
             THEN LdapStep(<<ev, LogInfo("Successfully added machine account")>>, "returned")
             ELSE IF f.do = "raise" THEN LdapCaught(<<ev>>, f.exc)
             ELSE IF f.do = "quota" THEN LdapStep(<<ev, QuotaLog>>, "returned")
             ELSE LdapStep(<<ev, QuotaLog, LogInfo("Trying to bypass machine quota"),
                             Ev("bypass_with_msExchStorageGroup", None, None, "called")>>,
                           "bypass_schema")
  /\ UNCHANGED <<opts, self, escaped, samrLocals, taken>>

\* ------------------------------------------- bypass_with_msExchStorageGroup
\* What the schema search can answer: it raises, finds nothing, or finds the
\* class with a possSuperiors list.
SchemaAnswers ==
  {"LDAPCommunicationError", "absent", "patched", "vulnerable"}

\* Lines 171-177: whether the schema allows the bypass.
SchemaAllowsPatched(answer) == answer \in {"vulnerable", "patched"}

SchemaAllows(answer) == answer = "vulnerable"

\* Lines 167-179.
bypass_schema ==
  /\ pc = "bypass_schema"
  /\ \E a \in SchemaAnswers :
       LET ev == Ev("ldapConn.search", "schemaNamingContext", "ms-Exch-Storage-Group", a)
       IN IF a = "LDAPCommunicationError" THEN LdapCaught(<<ev>>, LDAPCommunicationError)
          ELSE IF SchemaAllows(a)
          THEN LdapStep(<<ev, LogInfo("msExchStorageGroup exists and is vulnerable")>>,
                        "bypass_user")
          ELSE IF a = "absent"
          THEN LdapStep(<<ev, LogError("msExchStorageGroup does not exist")>>, "returned")
          ELSE LdapStep(<<ev, LogError("msExchStorageGroup not vulnerable")>>, "returned")
  /\ UNCHANGED <<opts, self, escaped, samrLocals, backend, taken>>

\* Lines 181-184 and getUserInfo, lines 156-164.
bypass_getUserInfo ==
  /\ pc = "bypass_user"
  /\ \E a \in {"LDAPCommunicationError", "found", "not found"} :
       LET ev == Ev("getUserInfo", "baseDN", self.username, a)
       IN IF a = "LDAPCommunicationError" THEN LdapCaught(<<ev>>, LDAPCommunicationError)
          ELSE IF a = "found" THEN LdapStep(<<ev>>, "bypass_container")
          ELSE LdapStep(<<ev, LogError("User not found in LDAP"),
                          LogError("Could not find target user in domain")>>, "returned")
  /\ UNCHANGED <<opts, self, escaped, samrLocals, backend, taken>>

\* Lines 186-199.
bypass_addContainer ==
  /\ pc = "bypass_container"
  /\ \E r \in {"LDAPCommunicationError", "success", "other"} :
       LET ev == Ev("ldapConn.add", "mESG_dn", "msExchStorageGroup", r)
       IN IF r = "LDAPCommunicationError" THEN LdapCaught(<<ev>>, LDAPCommunicationError)
          ELSE IF r = "success"
          THEN LdapStep(<<ev, LogInfo("Added msExchStorageGroup object")>>, "bypass_computer")
          ELSE LdapStep(<<ev, LogError("Failed to add msExchStorageGroup object")>>,
                        "returned")
  /\ UNCHANGED <<opts, self, escaped, samrLocals, backend, taken>>

\* Lines 201-211.
bypass_addComputer ==
  /\ pc = "bypass_computer"
  /\ \E r \in {"LDAPCommunicationError", "success", "other"} :
       LET ev == Ev("ldapConn.add", "newComputerDn", self.computerName.chars, r)
       IN /\ backend' = IF r = "success" THEN Added(self.computerName) ELSE backend
          /\ IF r = "LDAPCommunicationError" THEN LdapCaught(<<ev>>, LDAPCommunicationError)
             ELSE IF r = "success"
             THEN LdapStep(<<ev, LogInfo("Adding new computer result: OK")>>, "returned")
             ELSE LdapStep(<<ev, LogError("Failed to add a new computer")>>, "returned")
  /\ UNCHANGED <<opts, self, escaped, samrLocals, taken>>

LdapNext ==
  \/ run_ldaps_tls12
  \/ run_ldaps_tls1
  \/ run_ldaps_Exists
  \/ run_ldaps_GetComputer
  \/ run_ldaps_Mutate
  \/ run_ldaps_CheckNew
  \/ run_ldaps_GenerateName
  \/ run_ldaps_Add
  \/ bypass_schema
  \/ bypass_getUserInfo
  \/ bypass_addContainer
  \/ bypass_addComputer

Next ==
  \/ ADDCOMPUTER_init
  \/ run
  \/ SamrNext
  \/ LdapNext

Spec == Init /\ [][Next]_vars

\* The program is one thread and every call it makes returns or raises: a
\* step that can be taken is taken.
FairSpec == Spec /\ WF_vars(Next)

\* ===================================================================== claims
Called(op) == \E i \in 1..Len(trace) : trace[i].op = op
CallsOf(op) == {i \in 1..Len(trace) : trace[i].op = op}

Samr == opts.method = "SAMR"
Ldaps == opts.method = "LDAPS"
Create == ~opts.no_add /\ ~opts.delete

\* run() has handed control back: it returned, or an exception left it.
RunExited == pc \in {"returned", "run_raised"}
\* doSAMRAdd was entered and control has left it.
SamrEngineExited == Samr /\ RunExited /\ Called("dce.connect")
\* The try block of doSAMRAdd is over.
SamrTryOver == pc \in {"fin_user", "fin_domain", "fin_server", "disconnect",
                       "returned", "run_raised"}

IsTeardown(ev) == ev.op \in {"hSamrCloseHandle", "dce.disconnect"}
TeardownTarget(ev) == IF ev.op = "dce.disconnect" THEN "transport" ELSE ev.h
\* The teardown calls issued so far, in order, by what they release.
TeardownIssued ==
  LET t == SelectSeq(trace, IsTeardown)
  IN [i \in 1..Len(t) |-> TeardownTarget(t[i])]
\* The teardown the handles held at the end of the try block call for.
TeardownDue ==
  (IF userHandle # None THEN <<userHandle>> ELSE <<>>)
  \o (IF domainHandle # None THEN <<domainHandle>> ELSE <<>>)
  \o (IF servHandle # None THEN <<servHandle>> ELSE <<>>)
  \o <<"transport">>

\* C1: whenever control has left doSAMRAdd, on any exit path, the teardown
\* calls issued are exactly: close of the user handle, of the domain handle,
\* of the server handle (each only if held), then the transport disconnect.
C1_TeardownOnEveryExit == SamrEngineExited => TeardownIssued = TeardownDue

\* C2: when doSAMRAdd has returned, the server holds none of the handles the
\* invocation acquired: every one of them was released.
C2_NoHandleLeftOpen == (Samr /\ pc = "returned") => openHandles = {}

\* C3: when run_ldaps has handed control back, a directory connection it
\* bound is no longer bound: it was torn down.
C3_ConnectionTornDown == (Ldaps /\ RunExited) => ldapConn # "bound"

\* C4: no exception leaves run_samr or run_ldaps.
C4_NoErrorPropagates == pc # "run_raised"

\* C5: with -no-add or -delete and no computer name, the constructor raises
\* ValueError and no network call has been issued.
C5_NameRequired ==
  (opts.computer_name.isNone /\ (opts.no_add \/ opts.delete) /\ pc # "start")
    => (pc = "init_raised" /\ escaped.type = "ValueError" /\ trace = <<>>
          /\ ldapConn = "none" /\ openHandles = {})

C5_Witness ==
  /\ opts.computer_name.isNone /\ opts.delete /\ ~opts.no_add
  /\ pc = "init_raised"
  /\ escaped = Exc("ValueError", None, "computer name required with -delete")

IsLookup(ev) == ev.op = "hSamrLookupNamesInDomain"
NotFoundLookup == \E i \in 1..Len(trace) : IsLookup(trace[i]) /\ trace[i].res = STATUS_NONE_MAPPED
UserHandles == {"hUserOpened", "hUserCreated", "hUserReopened"}

\* C6: in the SAMR engine with -no-add or -delete, once the lookup of the
\* name has answered 'none mapped', the try block is over with the
\* 'account not found' error, and create-user, open-user, delete-user and
\* set-password have not been called and no user handle exists.
C6_NotFoundEndsRun ==
  (Samr /\ (opts.no_add \/ opts.delete) /\ NotFoundLookup)
    => /\ SamrTryOver
       /\ err = Exc("Exception", None, "Account not found in domain")
       /\ ~Called("hSamrCreateUser2InDomain")
       /\ ~Called("hSamrOpenUser")
       /\ ~Called("hSamrDeleteUser")
       /\ ~Called("hSamrSetPasswordInternal4New")
       /\ userHandle = None
       /\ openHandles \cap UserHandles = {}

C6_Witness ==
  /\ Samr /\ opts.delete /\ NotFoundLookup
  /\ pc = "returned"
  /\ err = Exc("Exception", None, "Account not found in domain")

\* The lookup that checks the supplied name: the first lookup of the run.
FirstLookup == CHOOSE i \in CallsOf("hSamrLookupNamesInDomain") :
                 \A j \in CallsOf("hSamrLookupNamesInDomain") : i <= j

\* C7: in the SAMR engine, Create with a supplied name: create-user is only
\* ever called right after the lookup of that name answered 'none mapped';
\* when that lookup found the name the try block is over with the 'account
\* already exists' error, when it failed otherwise the try block is over
\* with that failure, and in both cases create-user has not been called.
C7_CreateOnlyAfterNotFound ==
  (Samr /\ Create /\ ~opts.computer_name.isNone)
    => /\ \A i \in CallsOf("hSamrCreateUser2InDomain") :
            /\ i > 1
            /\ IsLookup(trace[i - 1])
            /\ trace[i - 1].arg = self.computerName.chars
            /\ trace[i - 1].res = STATUS_NONE_MAPPED
            /\ trace[i].arg = self.computerName.chars
       /\ CallsOf("hSamrLookupNamesInDomain") # {} =>
            LET first == trace[FirstLookup]
            IN /\ first.res = "ok" =>
                    (SamrTryOver /\ err = AlreadyExists
                       /\ ~Called("hSamrCreateUser2InDomain"))
               /\ first.res \notin {"ok", STATUS_NONE_MAPPED} =>
                    (SamrTryOver /\ ResultOf(err) = first.res
                       /\ ~Called("hSamrCreateUser2InDomain"))

C7_Witness ==
  /\ Samr /\ Create /\ ~opts.computer_name.isNone
  /\ Called("hSamrCreateUser2InDomain")
  /\ trace[FirstLookup].res = STATUS_NONE_MAPPED
  /\ pc = "returned"

\* C8: in the LDAPS engine, Create with a supplied name: when the directory
\* holds at least one entry with that sAMAccountName and no add has been
\* issued, the existence check has ended the run with the 'account already
\* exists' error, so no add is issued.
C8_ExistingNameAborts ==
  (Ldaps /\ Create /\ ~opts.computer_name.isNone
     /\ Called("LDAPComputerExists") /\ ~Called("ldapConn.add")
     /\ self.computerName.chars \in DOMAIN backend
     /\ backend[self.computerName.chars] >= 1)
    => (pc = "returned" /\ err = AlreadyExists)

\* The calls that create the account under a name, and the probes.
IsCreation(ev) ==
  \/ ev.op = "hSamrCreateUser2InDomain"
  \/ ev.op = "ldapConn.add" /\ ev.h \in {"computerDn", "newComputerDn"}
IsProbe(ev) == ev.op \in {"hSamrLookupNamesInDomain", "LDAPComputerExists"}
ReportsAbsent(ev) == ev.res \in {STATUS_NONE_MAPPED, "False"}
ReportsPresent(ev) == ev.res \in {"ok", "True"}

\* C9: Create without a supplied name, in both engines: every call that
\* creates the account passes the name generated last, the call before the
\* primary creation is the probe of that name and reported it absent, and no
\* earlier probe reported that name present.
C9_CreatesOnlyConfirmedAbsent ==
  (Create /\ opts.computer_name.isNone)
    => \A i \in 1..Len(trace) :
         IsCreation(trace[i]) =>
           /\ trace[i].arg = self.computerName.chars
           /\ \E j \in 1..(i - 1) :
                /\ IsProbe(trace[j]) /\ trace[j].arg = trace[i].arg
                /\ ReportsAbsent(trace[j])
                /\ \A k \in (j + 1)..(i - 1) : ~IsProbe(trace[k])
                /\ (trace[i].h # "newComputerDn" => j = i - 1)
           /\ \A j \in 1..(i - 1) :
                (IsProbe(trace[j]) /\ trace[j].arg = trace[i].arg)
                  => ~ReportsPresent(trace[j])

C9_Witness ==
  /\ Create /\ opts.computer_name.isNone
  /\ taken >= 1
  /\ \E i \in 1..Len(trace) : IsCreation(trace[i]) /\ trace[i].res \in {"ok", "success"}
  /\ pc = "returned"

\* The messages that carry the sub-code 0x216D.
QuotaMessages ==
  {<<"0", "0", "0", "0", "2", "1", "6", "D", ":", " ", "S", "v", "c">>,
   <<" ", "2", "1", "6", "d", " ", ":", "x">>}
QuotaRefusals ==
  {i \in CallsOf("ldapConn.add") :
     /\ trace[i].h = "computerDn"
     /\ trace[i].res = "unwillingToPerform"
     /\ trace[i].message \in QuotaMessages}
BypassCalls == CallsOf("bypass_with_msExchStorageGroup")

\* C10: in the LDAPS engine the fallback is called once if the add was
\* refused as 'unwilling to perform' with sub-code 0x216D and the user name
\* ends in '$'; otherwise (another sub-code or result, a successful add, a
\* user name without the '$') it is not called; it directly follows the
\* refused add and the two log records.
C10_BypassExactlyOnce ==
  Ldaps =>
    /\ Cardinality(BypassCalls) =
         (IF QuotaRefusals # {} /\ EndsWith(opts.username, "$") THEN 1 ELSE 0)
    /\ \A i \in BypassCalls : (i - 3) \in QuotaRefusals
    /\ Cardinality(CallsOf("ldapConn.search")) <= Cardinality(BypassCalls)

C10_Witness ==
  /\ Ldaps /\ Cardinality(BypassCalls) = 1 /\ QuotaRefusals # {}
  /\ EndsWith(opts.username, "$")
  /\ pc = "returned"

\* The calls of the Create path that change the account, and the teardown.
IsCreateStep(ev) ==
  ev.op \in {"hSamrCreateUser2InDomain", "hSamrSetPasswordInternal4New",
             "hSamrSetInformationUser2", "hSamrCloseHandle", "dce.disconnect"}
\* Those calls in the order issued, each with the handle it was issued on.
CreateSteps ==
  LET t == SelectSeq(trace, IsCreateStep)
  IN [i \in 1..Len(t) |-> <<t[i].op, t[i].h>>]
\* The domain list the server enumerated holds one non-builtin domain.
SingleDomainEnumerated ==
  \E i \in CallsOf("hSamrEnumerateDomainsInSamServer") :
    trace[i].res = "ok" /\ Len(DomainsWithoutBuiltin(trace[i].arg)) = 1
\* A Create run of the SAMR engine in which every call succeeded.
CreateAllSucceeded ==
  /\ Samr /\ Create /\ pc = "returned" /\ err = NoExc
  /\ SingleDomainEnumerated
\* The account is created as a workstation trust account and the
\* account-control value written last is the workstation trust flag.
CreatedAsWorkstation ==
  /\ \A i \in CallsOf("hSamrCreateUser2InDomain") :
       trace[i].message[1] = "USER_WORKSTATION_TRUST_ACCOUNT"
  /\ \A i \in CallsOf("hSamrSetInformationUser2") :
       trace[i].arg = "USER_WORKSTATION_TRUST_ACCOUNT"

\* C11 as stated: in a SAMR Create run with one non-builtin domain in which
\* every call succeeds, the calls are create-user (workstation trust), then
\* set-password, then set-information, then the teardown closes the domain
\* handle and the server handle, no user handle being closed in the
\* teardown, and last the transport is disconnected.
C11_UserHandleConsumed ==
  CreateAllSucceeded =>
    /\ CreatedAsWorkstation
    /\ CreateSteps = << <<"hSamrCreateUser2InDomain", "hDomain">>,
                        <<"hSamrSetPasswordInternal4New", "hUserCreated">>,
                        <<"hSamrSetInformationUser2", "hUserReopened">>,
                        <<"hSamrCloseHandle", "hDomain">>,
                        <<"hSamrCloseHandle", "hServer">>,
                        <<"dce.disconnect", None>> >>

\* C11, amended: in a SAMR Create run with one non-builtin domain in which
\* every call succeeds, the calls are create-user (workstation trust), then
\* set-password on the handle create-user returned, then set-information on
\* the handle of the second open-user, then the teardown closes that
\* re-opened user handle, the domain handle and the server handle in this
\* order, and last the transport is disconnected.
C11_CreateThenTeardown ==
  CreateAllSucceeded =>
    /\ CreatedAsWorkstation
    /\ CreateSteps = << <<"hSamrCreateUser2InDomain", "hDomain">>,
                        <<"hSamrSetPasswordInternal4New", "hUserCreated">>,
                        <<"hSamrSetInformationUser2", "hUserReopened">>,
                        <<"hSamrCloseHandle", "hUserReopened">>,
                        <<"hSamrCloseHandle", "hDomain">>,
                        <<"hSamrCloseHandle", "hServer">>,
                        <<"dce.disconnect", None>> >>

C11_Witness ==
  /\ CreateAllSucceeded
  /\ Called("hSamrSetInformationUser2")
  /\ Called("dce.disconnect")
  /\ ~opts.computer_name.isNone

\* The constructor ran with a method and a Kerberos setting it accepts and
\* with a supplied name that lacks the trailing '$'.
NameWithoutMarkerGiven ==
  /\ pc # "start"
  /\ opts.method \in {"SAMR", "LDAPS"}
  /\ ~(opts.k /\ opts.dc_host = None)
  /\ ~opts.computer_name.isNone
  /\ ~EndsWith(opts.computer_name.chars, "$")

\* C12: for every supplied name that lacks the trailing '$' (the empty name
\* and names with '$' elsewhere included) the constructor succeeds, the
\* resolved name is the supplied one followed by one '$', and resolving the
\* resolved name again changes nothing.
C12_ResolutionAppendsMarker ==
  NameWithoutMarkerGiven =>
    /\ pc # "init_raised"
    /\ self.constructed
    /\ self.computerName = Name(Append(opts.computer_name.chars, "$"))
    /\ ResolveName(self.computerName) = self.computerName

\* The session attempts of run_ldaps: the bind events, by protocol version.
ModernAttempts == {i \in CallsOf("ldapConn.bind") : trace[i].h = "PROTOCOL_TLSv1_2"}
LegacyAttempts == {i \in CallsOf("ldapConn.bind") : trace[i].h = "PROTOCOL_TLSv1"}
\* The events that are calls to the server or the directory (not log records,
\* not the entry into the fallback).
IsProtocolCall(ev) ==
  ev.op \notin {"logging.critical", "logging.info", "logging.error",
                "bypass_with_msExchStorageGroup"}
\* A call that did not succeed.  A probe that reports the name absent has
\* answered; it has not failed.
CallFailed(ev) ==
  /\ IsProtocolCall(ev)
  /\ ev.res \notin {"ok", "True", "success", "found", "vulnerable"}
  /\ ~(IsProbe(ev) /\ ReportsAbsent(ev))
\* The run is over with an error reported.
EndedInError == pc = "returned" /\ err # NoExc

\* C13, the retry: the attempt with TLS 1 is made at most once, and only
\* right after the attempt with TLS 1.2 failed with the socket-open error.
C13_RetryOnlyAfterHandshakeFailure ==
  /\ Cardinality(ModernAttempts) <= 1
  /\ Cardinality(LegacyAttempts) <= 1
  /\ \A i \in LegacyAttempts :
       (i - 1) \in ModernAttempts /\ trace[i - 1].res = "LDAPSocketOpenError"

\* C13, nothing else is retried: a call other than the bind that failed is
\* never issued again (same operation on the same target with the same
\* argument) later in the run.
C13_NoOtherCallReissued ==
  \A i \in 1..Len(trace) : \A j \in (i + 1)..Len(trace) :
    (CallFailed(trace[i]) /\ trace[i].op # "ldapConn.bind")
      => ~(/\ trace[j].op = trace[i].op
           /\ trace[j].h = trace[i].h
           /\ trace[j].arg = trace[i].arg)

\* C13, terminal failures: an attempt with TLS 1.2 that failed otherwise
\* than with the socket-open error, and an attempt with TLS 1 that failed,
\* end the run with an error, no further call being issued.
C13_OtherFailuresTerminal ==
  /\ \A i \in ModernAttempts :
       trace[i].res \notin {"True", "LDAPSocketOpenError"}
         => (EndedInError /\ \A j \in (i + 1)..Len(trace) : ~IsProtocolCall(trace[j]))
  /\ \A i \in LegacyAttempts :
       trace[i].res # "True"
         => (EndedInError /\ \A j \in (i + 1)..Len(trace) : ~IsProtocolCall(trace[j]))

\* C13: the attempt with TLS 1 is made at most once per run and only after
\* the attempt with TLS 1.2 failed with the socket-open error; any other
\* failure of the first attempt and any failure of the second one ends the
\* run; no other call, in either engine, is issued again after it failed.
C13_SingleHandshakeRetry ==
  /\ C13_RetryOnlyAfterHandshakeFailure
  /\ C13_OtherFailuresTerminal
  /\ C13_NoOtherCallReissued

\* The searches and changes run_ldaps issues on its connection.
DirectoryOps ==
  {"LDAPComputerExists", "LDAPGetComputer", "getUserInfo", "ldapConn.search",
   "ldapConn.add", "ldapConn.modify", "ldapConn.delete"}
\* The bind issued last.
LastBind == CHOOSE i \in CallsOf("ldapConn.bind") :
              \A j \in CallsOf("ldapConn.bind") : j <= i
\* Session setup is over and its last bind did not succeed.
BindNotSucceeded ==
  /\ Ldaps /\ CallsOf("ldapConn.bind") # {}
  /\ pc # "tls1"
  /\ trace[LastBind].res # "True"

\* C14: in the LDAPS engine, for Kerberos, NTLM with hashes and NTLM with a
\* password, over TLS 1.2 and over TLS 1: when the bind did not succeed the
\* run is over with an error, and no search, add, modify or delete was
\* issued on the connection after that bind.
C14_UnboundConnectionUnused ==
  BindNotSucceeded =>
    /\ EndedInError
    /\ \A j \in (LastBind + 1)..Len(trace) : trace[j].op \notin DirectoryOps

\* The enumerate call that succeeded, and the list it returned.
EnumerateAnswered ==
  \E i \in CallsOf("hSamrEnumerateDomainsInSamServer") : trace[i].res = "ok"
EnumeratedDomains ==
  trace[CHOOSE i \in CallsOf("hSamrEnumerateDomainsInSamServer") : trace[i].res = "ok"].arg
\* The non-builtin domains whose name equals the configured NetBIOS name
\* when case is ignored on both sides.
CandidatesNamed(domains, netbios) ==
  LET nb == DomainsWithoutBuiltin(domains)
  IN FilterSeq(nb, {d \in NamesOf(nb) : Lower(d) = Lower(netbios)})
\* The try block ended at the domain selection with the 'multiple domains'
\* diagnostic.
AmbiguousDomainReported ==
  /\ SamrTryOver
  /\ err = Exc("Exception", None, "")
  /\ \E i \in CallsOf("logging.critical") :
       trace[i].arg = "This server provides multiple domains"

\* C15: in the SAMR engine, when the enumeration lists more than one
\* non-builtin domain, the run goes on with the one whose name equals the
\* configured NetBIOS name, case ignored, if exactly one candidate has that
\* name, and otherwise ends with the 'multiple domains' error without
\* lookup-domain or open-domain being called; when it lists exactly one
\* non-builtin domain that one is selected whatever the NetBIOS name is.
C15_DomainDisambiguation ==
  (Samr /\ EnumerateAnswered) =>
    LET nb == DomainsWithoutBuiltin(EnumeratedDomains)
        named == CandidatesNamed(EnumeratedDomains, self.domainNetbios)
    IN /\ Len(nb) > 1 =>
            IF Len(named) = 1
            THEN selectedDomain = named[1] /\ ~AmbiguousDomainReported
            ELSE /\ AmbiguousDomainReported
                 /\ ~Called("hSamrLookupDomainInSamServer")
                 /\ ~Called("hSamrOpenDomain")
       /\ Len(nb) = 1 => selectedDomain = nb[1]

\* The open-user calls that were refused with 'access denied'.
OpenUserDenied ==
  {i \in CallsOf("hSamrOpenUser") : trace[i].res = STATUS_ACCESS_DENIED}

\* C16: in the SAMR engine with -no-add or -delete, open-user asks for the
\* DELETE right alone when deleting and for the force-password-change right
\* alone when setting the password; when open-user is refused with 'access
\* denied' the try block is over with the 'user doesn't have right' error,
\* no user handle is held, and neither delete-user nor set-password has been
\* called.
C16_MinimalRightOrRefusal ==
  (Samr /\ (opts.no_add \/ opts.delete)) =>
    /\ \A i \in CallsOf("hSamrOpenUser") :
         trace[i].arg = (IF opts.delete THEN "DELETE" ELSE "USER_FORCE_PASSWORD_CHANGE")
    /\ OpenUserDenied # {} =>
         /\ SamrTryOver
         /\ err = Exc("Exception", None, "User doesn't have right")
         /\ userHandle = None
         /\ openHandles \cap UserHandles = {}
         /\ ~Called("hSamrDeleteUser")
         /\ ~Called("hSamrSetPasswordInternal4New")

C16_Witness ==
  /\ Samr /\ opts.no_add /\ ~opts.delete
  /\ OpenUserDenied # {}
  /\ pc = "returned"

\* The delete and modify calls issued on the entry, and the records that
\* report success.
Mutations == CallsOf("ldapConn.delete") \cup CallsOf("ldapConn.modify")
SuccessReports ==
  {i \in CallsOf("logging.info") :
     trace[i].arg \in {"Succesfully set password", "Succesfully deleted"}}
\* The existence check was answered and the directory holds no entry with
\* the name (and not because this run deleted it).
EntryAbsent ==
  /\ \E i \in CallsOf("LDAPComputerExists") : trace[i].res \in {"True", "False"}
  /\ self.computerName.chars \in DOMAIN backend
  /\ backend[self.computerName.chars] = 0
  /\ \A i \in Mutations : trace[i].res # "success"

\* C17: in the LDAPS engine with -no-add or -delete: when the entry is
\* absent the run is over with the 'account not found' error and no delete
\* or modify was issued; a delete or modify refused with 'insufficient
\* access rights' ends the run with the 'user doesn't have right' error;
\* one that fails with another result ends it with the generic error that
\* carries ldapConn.result; success is logged only directly after a delete
\* or modify that succeeded.
C17_MutationOutcomes ==
  (Ldaps /\ (opts.no_add \/ opts.delete) /\ pc \notin {"start", "init_raised"}) =>
    /\ EntryAbsent =>
         /\ EndedInError
         /\ err = Exc("Exception", None, "Account not found")
         /\ Mutations = {}
    /\ \A i \in Mutations :
         /\ trace[i].res = "insufficientAccessRights" =>
              (EndedInError /\ err = Exc("Exception", None, "User doesn't have right"))
         /\ trace[i].res \in {"unwillingToPerform", "other"} =>
              (EndedInError /\ err = Exc("Exception", None, "ldapConn.result"))
    /\ \A i \in SuccessReports :
         (i - 1) \in Mutations /\ trace[i - 1].res = "success"

C17_Witness ==
  /\ Ldaps /\ opts.delete /\ ~opts.no_add
  /\ \E i \in Mutations : trace[i].res = "insufficientAccessRights"
  /\ pc = "returned"

\* The finally block is past the close of the user handle.
PastUserClose == pc \in {"fin_domain", "fin_server", "disconnect", "returned", "run_raised"}
ClosesOf(h) == {i \in CallsOf("hSamrCloseHandle") : trace[i].h = h}

\* C18: in the SAMR engine with -delete: once delete-user has succeeded the
\* user handle is dropped, it is passed neither to close-handle nor to any
\* later call; when delete-user failed the handle is still held and the
\* teardown closes it before it closes the domain and the server handle.
C18_DeletedHandleDropped ==
  (Samr /\ opts.delete) =>
    \A i \in CallsOf("hSamrDeleteUser") :
      /\ trace[i].res = "ok" =>
           /\ userHandle = None
           /\ \A j \in (i + 1)..Len(trace) : trace[j].h # trace[i].h
      /\ trace[i].res # "ok" =>
           /\ userHandle = trace[i].h
           /\ PastUserClose =>
                /\ Cardinality(ClosesOf(trace[i].h)) = 1
                /\ \A j \in ClosesOf(trace[i].h) :
                     /\ j > i
                     /\ \A k \in ClosesOf("hDomain") \cup ClosesOf("hServer") : j < k

C18_Witness ==
  /\ Samr /\ opts.delete
  /\ \E i \in CallsOf("hSamrDeleteUser") : trace[i].res = "ok"
  /\ pc = "returned"

\* The calls the fallback issues on the connection, in the order issued.
IsFallbackCall(ev) ==
  \/ ev.op \in {"ldapConn.search", "getUserInfo"}
  \/ ev.op = "ldapConn.add" /\ ev.h \in {"mESG_dn", "newComputerDn"}
FallbackCalls == SelectSeq(trace, IsFallbackCall)
FallbackOrder ==
  << <<"ldapConn.search", "schemaNamingContext">>, <<"getUserInfo", "baseDN">>,
     <<"ldapConn.add", "mESG_dn">>, <<"ldapConn.add", "newComputerDn">> >>
\* The fallback gave up after n calls: the run is over, without an
\* exception, and the record logged last is the error diagnostic msg.
AbortedWith(n, msg) ==
  /\ Len(FallbackCalls) = n
  /\ pc = "returned" /\ err = NoExc
  /\ trace[Len(trace)].op = "logging.error"
  /\ trace[Len(trace)].arg = msg

\* C19: the fallback issues its calls in the order schema search, search
\* for the user's own entry, add of the container, add of the computer; the
\* container is added only if the schema search found the class with
\* 'computer' among its possSuperiors and the user's entry was found; the
\* computer is added only if the add of the container succeeded; a failed
\* schema check, a failed add of the container and a failed add of the
\* computer each end the fallback with a diagnostic of their own.
C19_FallbackSteps ==
  Ldaps =>
    LET t == FallbackCalls
    IN /\ Len(t) <= 4
       /\ \A i \in 1..Len(t) : <<t[i].op, t[i].h>> = FallbackOrder[i]
       /\ Len(t) >= 1 => BypassCalls # {}
       /\ Len(t) >= 2 => t[1].res = "vulnerable"
       /\ Len(t) >= 3 => (t[1].res = "vulnerable" /\ t[2].res = "found")
       /\ Len(t) >= 4 => t[3].res = "success"
       /\ (Len(t) >= 1 /\ t[1].res = "absent")
            => AbortedWith(1, "msExchStorageGroup does not exist")
       /\ (Len(t) >= 1 /\ t[1].res = "patched")
            => AbortedWith(1, "msExchStorageGroup not vulnerable")
       /\ (Len(t) >= 3 /\ t[3].res = "other")
            => AbortedWith(3, "Failed to add msExchStorageGroup object")
       /\ (Len(t) >= 4 /\ t[4].res = "other")
            => AbortedWith(4, "Failed to add a new computer")

C19_Witness ==
  /\ Ldaps /\ Len(FallbackCalls) = 4
  /\ FallbackCalls[4].res = "success"
  /\ pc = "returned"

\* run() has handed control back after an error: one the engine caught and
\* logged, or one that left it.
RunEndedInError == RunExited /\ (err # NoExc \/ escaped # NoExc)
\* The record that reports the error the engine caught: the critical record
\* logged last.
ErrorReport == CHOOSE i \in CallsOf("logging.critical") :
                 \A j \in CallsOf("logging.critical") : j <= i
\* Nothing the run acquired is still held: no handle is open on the server,
\* a transport that was connected has been disconnected, and the directory
\* connection is not bound.
ResourcesReleased ==
  /\ openHandles = {}
  /\ (\E i \in CallsOf("dce.connect") : trace[i].res = "ok")
       => \E j \in CallsOf("dce.disconnect") : trace[j].res = "ok"
  /\ ldapConn # "bound"

\* C20: in both engines, when a run has ended in an error the resources it
\* held (handles, transport, directory session) have been released, and no
\* release call was issued after the critical record that reports the
\* error.
C20_ReleaseNotAfterReport ==
  RunEndedInError =>
    /\ ResourcesReleased
    /\ err # NoExc =>
         \A j \in (ErrorReport + 1)..Len(trace) : ~IsTeardown(trace[j])

\* C21: once the constructor has returned, no step of either engine changes
\* a field of the object (method, target, port, domain, base DN, container
\* DN, computer name, computer password, credentials, noAdd, delete), a
\* Create run without a supplied computer name included.
C21_DescriptorImmutable == [][self.constructed => self' = self]_vars

\* The calls that receive the selected domain.
DomainCalls ==
  CallsOf("hSamrLookupDomainInSamServer") \cup CallsOf("hSamrOpenDomain")

\* C22: in the SAMR engine, for every enumerated domain list and every
\* configured NetBIOS name, the domain passed to lookup-domain and to
\* open-domain is one of the enumerated domains whose name is not 'builtin'
\* when case is ignored: it is never the built-in domain.
C22_NeverBuiltin ==
  Samr =>
    \A i \in DomainCalls :
      /\ Lower(trace[i].arg) # "builtin"
      /\ trace[i].arg \in NamesOf(DomainsWithoutBuiltin(EnumeratedDomains))

\* Control has left doSAMRAdd and the transport disconnect was performed.
Disconnected == RunExited /\ Called("dce.disconnect")

\* C23: every invocation of doSAMRAdd eventually disconnects the transport
\* and returns, whatever the calls answer (failures of connect, bind and
\* close-handle included), given that every call returns or fails and that
\* the name-generation loop is eventually told a name is absent or fails.
C23_EventuallyDisconnected == (Samr /\ pc = "connect") ~> Disconnected

\* The SAMR calls that are issued on a handle (the h of the event).
UsesHandle(ev) ==
  ev.op \in {"hSamrEnumerateDomainsInSamServer", "hSamrLookupDomainInSamServer",
             "hSamrOpenDomain", "hSamrLookupNamesInDomain", "hSamrOpenUser",
             "hSamrCreateUser2InDomain", "hSamrDeleteUser",
             "hSamrSetPasswordInternal4New", "hSamrSetInformationUser2",
             "hSamrCloseHandle"}
\* The events a step appends to the trace.
NewEvents == (Len(trace) + 1)..Len(trace')
\* One step keeps the handle discipline: every call it issues on a handle
\* uses one that is open on the server (acquired, not yet closed, not
\* consumed by delete-user); a handle it closes was not closed before; it
\* acquires a domain handle only while the server handle is open and a user
\* handle only while the domain handle is open.
HandleDiscipline ==
  /\ \A i \in NewEvents :
       /\ UsesHandle(trace'[i]) => trace'[i].h \in openHandles
       /\ trace'[i].op = "hSamrCloseHandle" => ClosesOf(trace'[i].h) = {}
  /\ "hDomain" \in (openHandles' \ openHandles) => servHandle \in openHandles
  /\ (openHandles' \ openHandles) \cap UserHandles # {} => domainHandle \in openHandles

\* C24: in the SAMR engine no account operation is ever issued with a handle
\* that has not been acquired yet or that was already closed or consumed by
\* delete-user, no handle is closed twice, a domain handle is acquired only
\* while the server handle is held and a user handle only while the domain
\* handle is held.
C24_HandlesValid == [][HandleDiscipline]_vars

C24_Witness ==
  /\ Samr /\ opts.delete
  /\ \E i \in CallsOf("hSamrDeleteUser") : trace[i].res = "ok"
  /\ ClosesOf("hDomain") # {} /\ ClosesOf("hServer") # {}
  /\ ClosesOf("hUserOpened") = {}
  /\ pc = "returned"

\* The calls that delete the account and those that change its password.
DeleteCalls == CallsOf("hSamrDeleteUser") \cup CallsOf("ldapConn.delete")
PasswordCalls == CallsOf("hSamrSetPasswordInternal4New") \cup CallsOf("ldapConn.modify")
\* The records that report a successful operation, by the operation named.
ReportsDeleted ==
  {i \in CallsOf("logging.info") :
     trace[i].arg \in {"Successfully deleted", "Succesfully deleted"}}
ReportsPasswordSet ==
  {i \in CallsOf("logging.info") :
     trace[i].arg \in {"Successfully set password", "Succesfully set password"}}

\* C25: with -no-add and -delete both set and a computer name given, either
\* engine issues one mutation at most, the delete of the account, and never
\* a password change; a run that ends without error has issued that delete;
\* and the success record names the delete, not the password change.
C25_BothFlagsDelete ==
  (opts.no_add /\ opts.delete /\ ~opts.computer_name.isNone) =>
    /\ PasswordCalls = {}
    /\ Cardinality(DeleteCalls) <= 1
    /\ (pc = "returned" /\ err = NoExc) => Cardinality(DeleteCalls) = 1
    /\ ReportsPasswordSet = {}
    /\ \A i \in DeleteCalls :
         (trace[i].res \in {"ok", "success"} /\ i < Len(trace)) => (i + 1) \in ReportsDeleted
====
